---- MODULE Spec2Model ----
(***************************************************************************)
(* State-machine model of the StressTester class of stressy                *)
(* (src/src/StressTester.js): the constant-rate and ramp-up scheduling     *)
(* loops, the per-request completion handler and the shared TestState.     *)
(*                                                                         *)
(* Time is counted in whole milliseconds.  Synchronous JavaScript code is  *)
(* taken to run in zero time and atomically (run-to-completion); the clock *)
(* advances only while the scheduler is suspended on an await, i.e. when a *)
(* request settles or a timer fires.  One action covers the code between   *)
(* two points where other code (a completion handler, or a listener or     *)
(* timer calling stop()) can run.                                          *)
(*                                                                         *)
(* performance.now() has an arbitrary origin and the code only subtracts   *)
(* readings taken during the same run, so the clock is read relative to    *)
(* the call of runStressTest in progress (0 when there is none).  Calls of *)
(* runStressTest on one tester follow one another: the next is made after  *)
(* the promise of the previous one has settled.  The locals and the        *)
(* history variables belong to the call in progress and are dropped when   *)
(* its promise settles.                                                    *)
(***************************************************************************)
EXTENDS Integers, Sequences, FiniteSets, TLC

VARIABLES
    state,          \* this.state (TestState)
    now,            \* performance.now()
    pc,             \* position of the runStressTest coroutine
    cfg,            \* testConfig of the current run
    totalCalls,     \* local of #executeConstantRateTest
    batches,        \* local of #executeConstantRateTest
    batch,          \* loop variable of #executeConstantRateTest
    stage,          \* loop variable of #executeRampUpTest
    stageEndTime,   \* local of #executeRampUpTest
    batchStartTime, \* local of both loops
    wakeAt,         \* earliest firing time of the pending setTimeout
    promises,       \* the promises array of the batch being awaited
    events,         \* history: events emitted by the call in progress
    batchLog,       \* history: the batches launched by the call in progress
    stopLog,        \* history: what the run had done when stop() was called
    callResult,     \* the promise returned by the latest call of runStressTest
    config,         \* this.config (the constructor configuration)
    reporterCalls,  \* history: reporter methods invoked by the call in progress
    arg,            \* argument of the call of a utility function under study
    ret,            \* what that call returned or threw
    returned        \* whether that call has been made

vars == <<state, now, pc, cfg, totalCalls, batches, batch, stage, stageEndTime,
          batchStartTime, wakeAt, promises, events, batchLog, stopLog, callResult,
          config, reporterCalls, arg, ret, returned>>

(* The variables of a call of one of the utility functions (validateConfig, *)
(* calculateStatistics, generateDynamicData) studied on its own.           *)
pureVars == <<arg, ret, returned>>

(* The variables of the tester *)
testerVars == <<state, now, pc, cfg, totalCalls, batches, batch, stage, stageEndTime,
                batchStartTime, wakeAt, promises, events, batchLog, stopLog, callResult,
                config, reporterCalls>>

-----------------------------------------------------------------------------
(* Bounds of the model                                                     *)

MaxRps == 2             \* largest requestsPerSecond
MaxTotal == 3           \* largest totalRequests
MaxDuration == 2        \* largest duration, in seconds
MaxRequests == 4        \* cap on the requests one tester launches over all its runs

(* Program constants                                                       *)

MsPerSecond == 1000     \* the 1000 of the pacing computation

Null == -1              \* JavaScript null (startTime before the first run)

(* Time that may pass between two consecutive events of a batch while the  *)
(* scheduler waits for the batch to settle, and the lateness of a timer.   *)
Elapse == {500, 1000}
TimerLate == {0, 250}

(* What the transport can answer: an HTTP status, or 0 for no response at  *)
(* all (timeout, connection error).                                        *)
Outcomes == {0, 200, 404}

(* Ramp-up sequences tried.  <<>> stands for an absent rampUp.             *)
RampUps == {<<1, 2>>, <<2>>}

(* body: "none" (absent, or a static structure that is sent unchanged) or  *)
(* "fn" (a generator function of the request id, which as user code may    *)
(* throw).                                                                 *)
Bodies == {"none", "fn"}

Min(a, b) == IF a <= b THEN a ELSE b
Max(a, b) == IF a >= b THEN a ELSE b

(* Math.ceil(a / b) for a >= 0, b > 0 *)
CeilDiv(a, b) == (a + b - 1) \div b

(* The configurations handed to runStressTest.  An absent numeric option   *)
(* is 0: the code tests these options by truthiness only.  duration is     *)
(* read only when totalRequests is absent, so the two are given together   *)
(* only with totalRequests = 1.                                            *)
ConstantConfigs ==
    { c \in [ url : {TRUE},
              requestsPerSecond : 1..MaxRps,
              totalRequests : 0..MaxTotal,
              duration : {0, MaxDuration},
              rampUp : {<<>>},
              maxRequestsPerSecond : {0},
              body : {"none"},
              silent : {FALSE} ] :
        c.totalRequests = 0 \/ c.duration = 0 \/ c.totalRequests = 1 }

(* Constant-rate configurations whose body is a generator function; the  *)
(* total is not a multiple of the largest rate, so the last batch is cut *)
GeneratorConfigs ==
    [ url : {TRUE},
      requestsPerSecond : 1..MaxRps,
      totalRequests : {MaxRps + 1},
      duration : {0},
      rampUp : {<<>>},
      maxRequestsPerSecond : {0},
      body : Bodies \ {"none"},
      silent : {FALSE} ]

(* Ramp-up configurations.  The ramp-up loop never reads totalRequests,    *)
(* which is given only in place of duration.                               *)
RampConfigs ==
    { c \in [ url : {TRUE},
              requestsPerSecond : {1},
              totalRequests : {0, MaxTotal},
              duration : {0, MaxDuration},
              rampUp : RampUps,
              maxRequestsPerSecond : {0, 1},
              body : {"none"},
              silent : {FALSE} ] :
        c.totalRequests = 0 \/ c.duration = 0 }

(* Configurations that break the rules of validateConfig in every         *)
(* combination (and one that breaks none).                                 *)
RuleConfigs ==
    [ url : BOOLEAN,
      requestsPerSecond : {0, 1},
      totalRequests : {0, 1},
      duration : {0},
      rampUp : {<<>>},
      maxRequestsPerSecond : {0},
      body : {"none"},
      silent : {FALSE} ]

(* Options that ask for silent mode *)
SilentConfigs ==
    [ url : {TRUE},
      requestsPerSecond : {1},
      totalRequests : {0, 1},
      duration : {0},
      rampUp : {<<>>, <<1>>},
      maxRequestsPerSecond : {0},
      body : {"none"},
      silent : {TRUE} ]

Configs ==
    ConstantConfigs \cup GeneratorConfigs \cup RampConfigs \cup RuleConfigs \cup SilentConfigs

(* Value of cfg while no call is in progress *)
NoConfig ==
    [ url |-> FALSE, requestsPerSecond |-> 0, totalRequests |-> 0, duration |-> 0,
      rampUp |-> <<>>, maxRequestsPerSecond |-> 0, body |-> "none", silent |-> FALSE ]

-----------------------------------------------------------------------------
(* The rules of validateConfig with only the first violation reported *)
configErrors_shortCircuit(url, baseURL, endpoint, rps, total, duration, rampUpTruthy, rampUpIsArray) ==
    IF ~url /\ (~baseURL \/ ~endpoint) THEN <<"url">>
    ELSE IF rps = 0 \/ rps <= 0 THEN <<"requestsPerSecond">>
    ELSE IF total = 0 /\ duration = 0 THEN <<"totalRequests">>
    ELSE IF rampUpTruthy /\ ~rampUpIsArray THEN <<"rampUp">>
    ELSE <<>>

(* The errors array of validateConfig: the violated rules, in the order of *)
(* the four if statements.  url, baseURL, endpoint and rampUpTruthy are    *)
(* the truthiness of those options; an absent number is 0.                 *)
configErrors(url, baseURL, endpoint, rps, total, duration, rampUpTruthy, rampUpIsArray) ==
    (IF ~url /\ (~baseURL \/ ~endpoint) THEN <<"url">> ELSE <<>>)
    \o (IF rps = 0 \/ rps <= 0 THEN <<"requestsPerSecond">> ELSE <<>>)
    \o (IF total = 0 /\ duration = 0 THEN <<"totalRequests">> ELSE <<>>)
    \o (IF rampUpTruthy /\ ~rampUpIsArray THEN <<"rampUp">> ELSE <<>>)

(* validateConfig on the merged configuration of a run: the list of        *)
(* violated rules.  These configurations give url or nothing, and their    *)
(* rampUp is an array or absent.                                           *)
validateConfig(c) ==
    configErrors(c.url, FALSE, FALSE, c.requestsPerSecond, c.totalRequests, c.duration,
                 c.rampUp # <<>>, TRUE)

(* What rampUp can be in a configuration object: absent, an array of       *)
(* numbers, an array with an element that is not a number, a non-empty     *)
(* string, a number other than 0, the number 0, a plain object.            *)
RampUpKinds == {"absent", "numbers", "mixed", "string", "number", "zero", "object"}

(* JavaScript truthiness and Array.isArray of such a value *)
RampUpTruthy(kind) == kind \notin {"absent", "zero"}
RampUpIsArray(kind) == kind \in {"numbers", "mixed"}

(* The configuration objects handed to validateConfig on its own *)
RawConfigs ==
    [ url : BOOLEAN,
      baseURL : BOOLEAN,
      endpoint : BOOLEAN,
      requestsPerSecond : {-1, 0, 1},
      totalRequests : {0, 1},
      duration : {0, 1},
      rampUp : RampUpKinds ]

(* The message line pushed for a violated rule *)
ErrorLine(rule) ==
    CASE rule = "url" -> "Either \"url\" or both \"baseURL\" and \"endpoint\" must be provided"
      [] rule = "requestsPerSecond" -> "\"requestsPerSecond\" must be a positive number"
      [] rule = "totalRequests" -> "Either \"totalRequests\" or \"duration\" must be provided"
      [] rule = "rampUp" -> "\"rampUp\" must be an array of numbers"

(* A return statement that hands back a copy of the configuration *)
returnConfig_copy(c) == [threw |-> FALSE, message |-> <<>>, value |-> "copy", config |-> c]

(* `return config`: the value is the argument object itself, whose fields  *)
(* (config) were never assigned.                                           *)
returnConfig(c) == [threw |-> FALSE, message |-> <<>>, value |-> "argument", config |-> c]

(* A call of validateConfig with the configuration object c: the error it  *)
(* throws (message, as the lines joined by "\n") or the value it returns,  *)
(* and the fields of c after the call.                                     *)
validateConfigCall(c) ==
    LET errors == configErrors(c.url, c.baseURL, c.endpoint, c.requestsPerSecond,
                               c.totalRequests, c.duration,
                               RampUpTruthy(c.rampUp), RampUpIsArray(c.rampUp))
    IN IF Len(errors) > 0
       THEN [ threw |-> TRUE,
              message |-> <<"Configuration errors:">>
                             \o [k \in 1..Len(errors) |-> ErrorLine(errors[k])],
              value |-> "none",
              config |-> c ]
       ELSE returnConfig(c)

(* ---- src/utils/statistics.js ---------------------------------------- *)
(* Numbers are held in thousandths: 3500 is 3.5 and 1001 is 1.001.  A     *)
(* result with two decimals is a multiple of 10.                          *)

MaxSamples == 3         \* longest array of the enumerated sample arrays

(* 1, 1.001, 1.512 and 3.332: whole and fractional samples, as the        *)
(* differences of two performance.now() readings are.                     *)
SampleValues == {1000, 1001, 1512, 3332}

Whole(seq) == [k \in 1..Len(seq) |-> 1000 * seq[k]]

(* The arrays of the tests (statistics.test.js lines 7, 16, 49) with two  *)
(* other orders of them, and 21 samples, for which the index of the 95th  *)
(* percentile is the integer 19.                                          *)
ExampleSamples ==
    { Whole(<<1, 2, 3, 4, 5, 6>>), Whole(<<6, 5, 4, 3, 2, 1>>),
      Whole(<<2, 1, 3, 4, 6, 5>>), Whole(<<10>>), Whole(<<5, 5, 5, 5, 5>>),
      Whole([k \in 1..21 |-> k]), Whole([k \in 1..21 |-> 22 - k]) }

(* The sum of the samples is computed in doubles, one addition after the  *)
(* other in array order (reduce, line 36); each addition rounds, so the   *)
(* double sum lies a few units of the last place below or above the exact *)
(* sum, on a side that is a function of the order of the additions.  The  *)
(* side matters only when the exact mean is halfway between two           *)
(* hundredths.                                                            *)
SumErrors == {"below", "above"}

(* Two orders of the same samples add the same doubles in the same order, *)
(* up to the commutativity of the first addition, when they differ at     *)
(* most in their first two elements.                                      *)
SameAdditions(s, t) ==
    \/ s = t
    \/ /\ Len(s) >= 2
       /\ t = [k \in 1..Len(s) |-> IF k = 1 THEN s[2] ELSE IF k = 2 THEN s[1] ELSE s[k]]

StatisticsInputs ==
    [kind: {"array"},
     samples: (UNION {[1..n -> SampleValues] : n \in 0..MaxSamples}) \cup ExampleSamples,
     sumError: SumErrors]
    \cup [kind: {"null", "object"}, samples: {<<>>}, sumError: {"below"}]

(* parseFloat(x.toFixed(2)) for x = num / den >= 0, in thousandths: the    *)
(* nearest hundredth; when the decimal value is halfway, the hundredth on *)
(* the side of it where the double lies (the larger one if the double is  *)
(* the halfway value itself, "exact").                                    *)
toFixed(num, den, side) ==
    LET down == 10 * (num \div (10 * den))
    IN  IF num = (down + 5) * den
        THEN IF side = "below" THEN down ELSE down + 10
        ELSE 10 * ((2 * num + 10 * den) \div (20 * den))

(* results.reduce((a, b) => a + b, 0) *)
RECURSIVE reduceSum(_)
reduceSum(results) ==
    IF results = <<>> THEN 0
    ELSE reduceSum(SubSeq(results, 1, Len(results) - 1)) + results[Len(results)]

(* Math.min(...results), Math.max(...results) *)
RECURSIVE mathMin(_)
mathMin(results) ==
    IF Len(results) = 1 THEN results[1] ELSE Min(results[1], mathMin(Tail(results)))

RECURSIVE mathMax(_)
mathMax(results) ==
    IF Len(results) = 1 THEN results[1] ELSE Max(results[1], mathMax(Tail(results)))

(* Array.prototype.sort with (a, b) => a - b: ascending by value *)
RECURSIVE insertSorted(_, _)
insertSorted(sorted, x) ==
    IF sorted = <<>> THEN <<x>>
    ELSE IF x < sorted[1] THEN <<x>> \o sorted
    ELSE <<sorted[1]>> \o insertSorted(Tail(sorted), x)

RECURSIVE sortAscending(_)
sortAscending(results) ==
    IF results = <<>> THEN <<>>
    ELSE insertSorted(sortAscending(Tail(results)), results[1])

(* [...results].sort(...), line 31: the copy is sorted, the argument is   *)
(* left as it is.                                                         *)
sortedCopy(results) ==
    [sorted |-> sortAscending(results), results |-> results]

(* the sample above the index, without interpolation *)
calculatePercentile_nearestRank(sortedArray, percentile) ==
    sortedArray[((percentile * (Len(sortedArray) - 1) + 99) \div 100) + 1]

(* calculatePercentile, lines 63-78.  scaled is 100 * index; the arrays   *)
(* of the model are indexed from 1.                                       *)
calculatePercentile(sortedArray, percentile) ==
    LET scaled == percentile * (Len(sortedArray) - 1)
        lower  == scaled \div 100
        upper  == (scaled + 99) \div 100
    IN  IF lower = upper
        THEN sortedArray[lower + 1]
        ELSE toFixed(100 * sortedArray[lower + 1]
                     + (sortedArray[upper + 1] - sortedArray[lower + 1])
                       * (scaled - 100 * lower),
                     100, "exact")

(* calculateStatistics, lines 26-43.  The returned object is the set of   *)
(* its <<key, value>> pairs ({} is the empty set); results is the         *)
(* argument as the call leaves it.                                        *)
calculateStatistics(input) ==
    IF input.kind # "array" \/ Len(input.samples) = 0
    THEN [value |-> {}, results |-> input]
    ELSE LET s == sortedCopy(input.samples)
         IN  [value |->
                { <<"min", mathMin(s.results)>>,
                  <<"max", mathMax(s.results)>>,
                  <<"avg", toFixed(reduceSum(s.results), Len(s.results), input.sumError)>>,
                  <<"p95", calculatePercentile(s.sorted, 95)>>,
                  <<"p99", calculatePercentile(s.sorted, 99)>> },
              results |-> [input EXCEPT !.samples = s.results]]

(* ---- src/generators/DataGenerator.js -------------------------------- *)
(* A string is the sequence of its characters.  A value of a template is  *)
(* [ref, t, v]: t is "string", "number", "boolean", "null" or "object",   *)
(* and v is the characters, the number, the boolean, 0 for null, or for   *)
(* an object the sequence of its [key, value] entries in the order of     *)
(* Object.entries (an array is an object whose keys are "0", "1", ...).   *)
(* ref tells the objects apart: "template" for the objects the caller     *)
(* built, "data" for the copy of line 65 and "result" for an object       *)
(* created at line 78; a primitive value has none.                        *)

Str(text) == [ref |-> "none", t |-> "string", v |-> text]
Num(n) == [ref |-> "none", t |-> "number", v |-> n]
Bool(b) == [ref |-> "none", t |-> "boolean", v |-> b]
NullValue == [ref |-> "none", t |-> "null", v |-> 0]
Obj(ref, entries) == [ref |-> ref, t |-> "object", v |-> entries]
Entry(key, value) == [key |-> key, value |-> value]

DigitChars == <<"0", "1", "2", "3", "4", "5", "6", "7", "8", "9">>

(* the string of line 140 *)
chars ==
    << "A", "B", "C", "D", "E", "F", "G", "H", "I", "J", "K", "L", "M",
       "N", "O", "P", "Q", "R", "S", "T", "U", "V", "W", "X", "Y", "Z",
       "a", "b", "c", "d", "e", "f", "g", "h", "i", "j", "k", "l", "m",
       "n", "o", "p", "q", "r", "s", "t", "u", "v", "w", "x", "y", "z" >>
    \o DigitChars

(* the patterns of lines 121-126 up to their digits *)
IdPattern == <<"{", "i", "d", "}">>
TimestampPattern == <<"{", "t", "i", "m", "e", "s", "t", "a", "m", "p", "}">>
RandomNumberPrefix ==
    <<"{", "r", "a", "n", "d", "o", "m", "N", "u", "m", "b", "e", "r", ":">>
RandomStringPrefix ==
    <<"{", "r", "a", "n", "d", "o", "m", "S", "t", "r", "i", "n", "g", ":">>

(* Math.random() returns 0, 0.5 or 123/124, as a number of 124ths *)
MathRandom == {0, 62, 123}

(* Date.now(), in milliseconds *)
DateNow == { <<"1", "7", "0", "0", "0", "0", "0", "0", "0", "0", "0", "0", "0">>,
             <<"1", "7", "0", "0", "0", "0", "0", "0", "0", "0", "0", "0", "1">> }

(* String(n) for an integer n >= 0 *)
RECURSIVE numberToString(_)
numberToString(n) ==
    IF n < 10 THEN <<DigitChars[n + 1]>>
    ELSE numberToString(n \div 10) \o <<DigitChars[(n % 10) + 1]>>

DigitValue(c) == CHOOSE d \in 0..9 : DigitChars[d + 1] = c

(* parseInt(digits) for a string of decimal digits *)
RECURSIVE parseInt(_)
parseInt(digits) ==
    IF Len(digits) = 1 THEN DigitValue(digits[1])
    ELSE 10 * parseInt(SubSeq(digits, 1, Len(digits) - 1)) + DigitValue(digits[Len(digits)])

IsDigit(c) == \E d \in 1..10 : DigitChars[d] = c

(* the pattern is in str at position i *)
matchLiteral(str, i, pattern) ==
    /\ i + Len(pattern) - 1 <= Len(str)
    /\ SubSeq(str, i, i + Len(pattern) - 1) = pattern

(* the leftmost of the positions where a pattern matches, 0 if none *)
firstMatch(positions) ==
    IF positions = {} THEN 0
    ELSE CHOOSE j \in positions : \A h \in positions : j <= h

(* str.replace(/pattern/g, replacement) from position i on, for a pattern *)
(* without operators: the matches from left to right, none overlapping    *)
(* the one before it                                                      *)
RECURSIVE replaceAll(_, _, _, _)
replaceAll(str, i, pattern, replacement) ==
    LET at == firstMatch({j \in i..Len(str) : matchLiteral(str, j, pattern)})
    IN  IF at = 0 THEN SubSeq(str, i, Len(str))
        ELSE SubSeq(str, i, at - 1) \o replacement
             \o replaceAll(str, at + Len(pattern), pattern, replacement)

(* the pattern without the g flag: the first match only *)
replaceId_firstOnly(str, requestId) ==
    LET at == firstMatch({j \in 1..Len(str) : matchLiteral(str, j, IdPattern)})
    IN  IF at = 0 THEN str
        ELSE SubSeq(str, 1, at - 1) \o numberToString(requestId)
             \o SubSeq(str, at + Len(IdPattern), Len(str))

(* .replace(/\{id\}/g, requestId), line 121 *)
replaceId(str, requestId) == replaceAll(str, 1, IdPattern, numberToString(requestId))

(* the position after the digits that start at position i *)
RECURSIVE digitsEnd(_, _)
digitsEnd(str, i) ==
    IF i <= Len(str) /\ IsDigit(str[i]) THEN digitsEnd(str, i + 1) ELSE i

(* /prefix(\d+)\}/ matches at position i *)
matchNumbered(str, i, prefix) ==
    /\ matchLiteral(str, i, prefix)
    /\ LET from == i + Len(prefix)
           to   == digitsEnd(str, from)
       IN  to > from /\ to <= Len(str) /\ str[to] = "}"

(* Math.ceil in the place of Math.floor *)
randomBelow_ceil(random, max) == (random * max + 123) \div 124

(* Math.floor(Math.random() * parseInt(max)), line 124 *)
randomBelow(random, max) == (random * max) \div 124

(* #generateRandomString, lines 138-146: randoms[used + 1], ... are the    *)
(* values of its calls of Math.random()                                   *)
RECURSIVE generateRandomString(_, _, _)
generateRandomString(length, randoms, used) ==
    IF length = 0 THEN <<>>
    ELSE <<chars[((randoms[used + 1] * Len(chars)) \div 124) + 1]>>
         \o generateRandomString(length - 1, randoms, used + 1)

(* the number written in the match of /prefix(\d+)\}/ at position at *)
matchedNumber(str, at, prefix) ==
    parseInt(SubSeq(str, at + Len(prefix), digitsEnd(str, at + Len(prefix)) - 1))

(* the function that replaces the match at position at (lines 123-128),   *)
(* called with randoms[used + 1], ... as the values of Math.random()      *)
replacementAt(str, at, prefix, randoms, used) ==
    IF prefix = RandomNumberPrefix
    THEN numberToString(randomBelow(randoms[used + 1], matchedNumber(str, at, prefix)))
    ELSE generateRandomString(matchedNumber(str, at, prefix), randoms, used)

(* the calls of Math.random() that function makes *)
callsAt(str, at, prefix) ==
    IF prefix = RandomNumberPrefix THEN 1 ELSE matchedNumber(str, at, prefix)

prepend(text, rest) == [text |-> text \o rest.text, used |-> rest.used]

(* the two replacements with a function, lines 123-128, from position i   *)
(* on, the leftmost match being at position at; used counts the calls of  *)
(* Math.random() made so far                                              *)
RECURSIVE replaceNumbered(_, _, _, _, _)
replaceNumberedFrom(str, i, at, prefix, randoms, used) ==
    IF at = 0 THEN [text |-> SubSeq(str, i, Len(str)), used |-> used]
    ELSE prepend(SubSeq(str, i, at - 1) \o replacementAt(str, at, prefix, randoms, used),
                 replaceNumbered(str, digitsEnd(str, at + Len(prefix)) + 1, prefix,
                                 randoms, used + callsAt(str, at, prefix)))

replaceNumbered(str, i, prefix, randoms, used) ==
    replaceNumberedFrom(str, i,
                        firstMatch({j \in i..Len(str) : matchNumbered(str, j, prefix)}),
                        prefix, randoms, used)

(* the last two replacements of #processString, the random numbers first *)
replaceRandom(withNumbers, randoms) ==
    replaceNumbered(withNumbers.text, 1, RandomStringPrefix, randoms, withNumbers.used)

(* #processString, lines 119-129 *)
processString(str, requestId, timestamp, randoms, used) ==
    replaceRandom(
        replaceNumbered(replaceAll(replaceId(str, requestId), 1, TimestampPattern, timestamp),
                        1, RandomNumberPrefix, randoms, used),
        randoms)

(* obj[key] = ... in the place of result[key] = ...: the processed values *)
(* are stored in the object that is being read                            *)
storeResult_inPlace(obj, result) ==
    [result |-> [obj EXCEPT !.v = result], obj |-> [obj EXCEPT !.v = result]]

(* const result = {}; result[key] = ...; return result (lines 78-84): the *)
(* processed values go to a new object and obj is not written             *)
storeResult(obj, result) == [result |-> Obj("result", result), obj |-> obj]

(* #processObject (lines 77-85) and #processValue (lines 95-103).  after  *)
(* is the value as the call leaves it, which for an object is the object  *)
(* itself, shared with whoever holds it.                                  *)
RECURSIVE processEntries(_, _, _, _, _, _)
RECURSIVE processValue(_, _, _, _, _)

(* the object is complete: return result *)
returnResult(stored, used) == [result |-> stored.result, obj |-> stored.obj, used |-> used]

objectOf(obj, done) ==
    returnResult(storeResult(Obj(obj.ref, done.after), done.result), done.used)

processObject(obj, requestId, timestamp, randoms, used) ==
    objectOf(obj, processEntries(obj.v, 1, requestId, timestamp, randoms, used))

(* result[key] = the processed value, before the entries that follow *)
setKey(key, first, rest) ==
    [result |-> <<Entry(key, first.value)>> \o rest.result,
     after  |-> <<Entry(key, first.after)>> \o rest.after,
     used   |-> rest.used]

processEntriesAfter(entries, i, requestId, timestamp, randoms, first) ==
    setKey(entries[i].key, first,
           processEntries(entries, i + 1, requestId, timestamp, randoms, first.used))

processEntries(entries, i, requestId, timestamp, randoms, used) ==
    IF i > Len(entries) THEN [result |-> <<>>, after |-> <<>>, used |-> used]
    ELSE processEntriesAfter(entries, i, requestId, timestamp, randoms,
                             processValue(entries[i].value, requestId, timestamp, randoms, used))

stringValue(value, processed) ==
    [value |-> Str(processed.text), after |-> value, used |-> processed.used]

objectValue(processed) ==
    [value |-> processed.result, after |-> processed.obj, used |-> processed.used]

processValue(value, requestId, timestamp, randoms, used) ==
    IF value.t = "string"
    THEN stringValue(value, processString(value.v, requestId, timestamp, randoms, used))
    ELSE IF value.t = "object"
    THEN objectValue(processObject(value, requestId, timestamp, randoms, used))
    ELSE [value |-> value, after |-> value, used |-> used]

(* generateDynamicData, lines 64-67: data is a copy of the entries of the *)
(* template, so what is written to data[key] is not written to the       *)
(* template, while an object that is a value of the template is the same  *)
(* object in data.  template is the template as the call leaves it.       *)
returnProcessed(template, processed) ==
    [value |-> processed.result,
     template |->
        Obj(template.ref,
            [k \in 1..Len(template.v) |->
                IF template.v[k].value.t = "object"
                THEN processed.obj.v[k]
                ELSE template.v[k]])]

generateDynamicData(template, requestId, timestamp, randoms) ==
    returnProcessed(template,
                    processObject(Obj("data", template.v), requestId, timestamp, randoms, 0))

(* ---- the templates generateDynamicData is called with ---------------- *)
MaxSegments == 2        \* most pieces of the string that varies in a template

(* The pieces a string of a template is written from: the letter a, {id}, *)
(* {timestamp}, {randomNumber:n}, {randomString:n}, and                   *)
(* {randomNumber:{id}}, whose number is the request id.                   *)
Segments ==
    [kind: {"text", "id", "timestamp", "randomNumberOfId"}, n: {0}]
    \cup [kind: {"randomNumber"}, n: {0, 3}]
    \cup [kind: {"randomString"}, n: {0, 2}]

RenderSegment(seg) ==
    CASE seg.kind = "text" -> <<"a">>
      [] seg.kind = "id" -> IdPattern
      [] seg.kind = "timestamp" -> TimestampPattern
      [] seg.kind = "randomNumber" -> RandomNumberPrefix \o numberToString(seg.n) \o <<"}">>
      [] seg.kind = "randomString" -> RandomStringPrefix \o numberToString(seg.n) \o <<"}">>
      [] seg.kind = "randomNumberOfId" -> RandomNumberPrefix \o IdPattern \o <<"}">>

RECURSIVE Render(_)
Render(segs) == IF segs = <<>> THEN <<>> ELSE RenderSegment(segs[1]) \o Render(Tail(segs))

Leaves == UNION {[1..n -> Segments] : n \in 0..MaxSegments}

UserId == <<[kind |-> "text", n |-> 0], [kind |-> "id", n |-> 0]>>

(* {id: S}, {user: {name: S, profile: {bio: "a{id}"}, age: 30}, active:   *)
(* true, nothing: null} and {items: [S, 7]}, written with the pieces of   *)
(* their strings                                                          *)
Shapes == {"flat", "nested", "array"}

Shape(shape, leaf) ==
    CASE shape = "flat" -> Obj("template", <<Entry("id", Str(leaf))>>)
      [] shape = "nested" ->
            Obj("template",
                << Entry("user",
                         Obj("template",
                             << Entry("name", Str(leaf)),
                                Entry("profile", Obj("template", <<Entry("bio", Str(UserId))>>)),
                                Entry("age", Num(30)) >>)),
                   Entry("active", Bool(TRUE)),
                   Entry("nothing", NullValue) >>)
      [] shape = "array" ->
            Obj("template",
                <<Entry("items",
                        Obj("template", <<Entry("0", Str(leaf)), Entry("1", Num(7))>>))>>)

RequestIds == {7, 42}

GeneratorInputs ==
    {[template |-> Shape(shape, leaf), requestId |-> id] :
        shape \in Shapes, leaf \in Leaves, id \in RequestIds}

(* the template as the program gets it: every string written out *)
RECURSIVE RenderTree(_)
RenderTree(value) ==
    IF value.t = "string" THEN Str(Render(value.v))
    ELSE IF value.t = "object"
    THEN Obj(value.ref, [k \in 1..Len(value.v) |->
                            Entry(value.v[k].key, RenderTree(value.v[k].value))])
    ELSE value

(* the number of calls of Math.random() the pieces ask for *)
RECURSIVE SegmentCalls(_)
SegmentCalls(segs) ==
    IF segs = <<>> THEN 0
    ELSE (IF segs[1].kind = "randomString" THEN segs[1].n
          ELSE IF segs[1].kind \in {"randomNumber", "randomNumberOfId"} THEN 1 ELSE 0)
         + SegmentCalls(Tail(segs))

RECURSIVE MathRandomCalls(_)
RECURSIVE EntriesCalls(_)
MathRandomCalls(value) ==
    IF value.t = "string" THEN SegmentCalls(value.v)
    ELSE IF value.t = "object" THEN EntriesCalls(value.v)
    ELSE 0

EntriesCalls(entries) ==
    IF entries = <<>> THEN 0
    ELSE MathRandomCalls(entries[1].value) + EntriesCalls(Tail(entries))

(* An emitted event: its name, the index it is about (request id, batch or *)
(* stage number; 0 when it has none) and its payload, a record.            *)
Event(type, a, b) == [type |-> type, a |-> a, b |-> b]

(* Payload of the events whose argument the model does not look at *)
NoPayload == [none |-> TRUE]

NotStopped == [called |-> FALSE, batches |-> 0, total |-> 0, pending |-> 0]

(* new StressTester({silent}) *)
Construct(silent) ==
    /\ config = [silent |-> silent]
    /\ reporterCalls = <<>>
    /\ state = [ totalRequests |-> 0, successfulRequests |-> 0, failedRequests |-> 0,
                 totalResponseTime |-> 0, startTime |-> Null, isRunning |-> FALSE,
                 requestsPerSecond |-> <<0, 1>>, responseTimes |-> <<>> ]
    /\ now = 0
    /\ pc = "idle"
    /\ cfg = NoConfig
    /\ totalCalls = 0
    /\ batches = 0
    /\ batch = 0
    /\ stage = 0
    /\ stageEndTime = 0
    /\ batchStartTime = 0
    /\ wakeAt = 0
    /\ promises = <<>>
    /\ events = <<>>
    /\ batchLog = <<>>
    /\ stopLog = NotStopped
    /\ callResult = [status |-> "none", value |-> <<>>]

(* No utility function is studied on its own *)
NoCall == arg = <<>> /\ ret = <<>> /\ returned = FALSE

(* A tester constructed with the default configuration *)
Init == Construct(FALSE) /\ NoCall

(* A tester constructed with or without silent: true *)
InitAny == (\E silent \in BOOLEAN : Construct(silent)) /\ NoCall

-----------------------------------------------------------------------------
(* Rational results of JavaScript divisions are kept as <<numerator,       *)
(* denominator>>; a zero denominator is the NaN or Infinity JavaScript     *)
(* yields for it.                                                          *)
Div(n, d) == <<n, d>>

(* x || 0 applied to the quotient n / d: NaN and 0 both become 0. *)
OrZero(n, d) == IF n = 0 THEN <<0, 1>> ELSE <<n, d>>

IsRampUp(c) == c.rampUp # <<>>

Settled(ps) == \A i \in 1..Len(ps) : ps[i].status # "pending"

(* #buildRequestBody: a generator function is invoked with the request id  *)
(* and may throw; thrown says whether it does for this call.               *)
buildRequestBodyThrows(c, thrown) == c.body = "fn" /\ thrown

(* The synchronous part of #executeSingleRequest, up to `await axios`: the *)
(* promise it returns.  The request id is read from the shared counter     *)
(* when the request is launched.  A throw of the body generator happens    *)
(* outside the try block: the promise is rejected at once and no counter   *)
(* is touched.                                                             *)
executeSingleRequest(st, t, c, thrown) ==
    LET requestId == st.totalRequests + 1
    IN [ id |-> requestId, start |-> t,
         status |-> IF buildRequestBodyThrows(c, thrown) THEN "rejected" ELSE "pending",
         outcome |-> -1 ]

(* The for loop that fills the promises array: size calls, none when size  *)
(* is zero or negative.  throwers are the calls whose generator throws.    *)
launchBatch(st, t, c, size, throwers) ==
    [ i \in 1..Max(0, size) |-> executeSingleRequest(st, t, c, i \in throwers) ]

Throwers(c, size) ==
    IF c.body = "fn" THEN SUBSET (1..Max(0, size)) ELSE {{}}

(* `responseTime` is the identifier read by `totalResponseTime +=` in both *)
(* the try and the catch block.  No binding of that name is in scope (the  *)
(* local is requestDuration), so evaluating it throws a ReferenceError.    *)
responseTimeInScope == FALSE

(* validateStatus of the request: axios resolves for these statuses and    *)
(* rejects for every other one and for transport failures.                 *)
validateStatus(status) == status >= 200 /\ status < 300

(* try block after axios resolved with `status`, at time t. *)
tryBlock(st, ev, req, status, t) ==
    LET requestDuration == t - req.start
        success == status >= 200 /\ status < 300
        result == [ id |-> req.id, success |-> success, statusCode |-> status,
                    responseTime |-> requestDuration, error |-> FALSE ]
        s1 == [st EXCEPT !.responseTimes = Append(@, requestDuration)]
        s2 == IF success THEN [s1 EXCEPT !.successfulRequests = @ + 1]
                         ELSE [s1 EXCEPT !.failedRequests = @ + 1]
    IN IF responseTimeInScope
       THEN [ st |-> [s2 EXCEPT !.totalResponseTime = @ + requestDuration],
              ev |-> Append(ev, Event("requestComplete", req.id, result)),
              thrown |-> FALSE ]
       ELSE [ st |-> s2, ev |-> ev, thrown |-> TRUE ]

(* catch block, entered when axios rejected or the try block threw. *)
catchBlock(st, ev, req, t) ==
    LET ev1 == Append(ev, Event("erorDuringRequest", req.id, NoPayload))
        requestDuration == t - req.start
        s1 == [st EXCEPT !.failedRequests = @ + 1]
        result == [ id |-> req.id, success |-> FALSE, statusCode |-> 0,
                    responseTime |-> requestDuration, error |-> TRUE ]
    IN IF responseTimeInScope
       THEN [ st |-> [s1 EXCEPT !.totalResponseTime = @ + requestDuration,
                                !.responseTimes = Append(@, requestDuration)],
              ev |-> Append(ev1, Event("requestComplete", req.id, result)),
              thrown |-> FALSE ]
       ELSE [ st |-> s1, ev |-> ev1, thrown |-> TRUE ]

(* finally block *)
finallyBlock(st) == [st EXCEPT !.totalRequests = @ + 1]

(* The continuation of #executeSingleRequest after `await axios`, run when *)
(* the transport answers `outcome` at time t.                              *)
completeRequest(st, ev, req, outcome, t) ==
    LET r1 == IF validateStatus(outcome)
              THEN tryBlock(st, ev, req, outcome, t)
              ELSE [st |-> st, ev |-> ev, thrown |-> TRUE]
        r2 == IF r1.thrown THEN catchBlock(r1.st, r1.ev, req, t) ELSE r1
    IN [ st |-> finallyBlock(r2.st), ev |-> r2.ev,
         status |-> IF r2.thrown THEN "rejected" ELSE "fulfilled" ]

(* #updateMetrics at time t *)
updateMetrics(st, t) ==
    [st EXCEPT !.requestsPerSecond = Div(st.totalRequests * MsPerSecond, t - st.startTime)]

(* A progress event that numbers the batches from 0 *)
reportProgress_zeroBased(st, currentBatch, totalBatches) ==
    Event("progress", currentBatch - 1,
          [ totalBatches |-> totalBatches,
            totalRequests |-> st.totalRequests,
            successfulRequests |-> st.successfulRequests,
            failedRequests |-> st.failedRequests,
            requestsPerSecond |-> st.requestsPerSecond,
            averageResponseTime |-> OrZero(st.totalResponseTime, st.totalRequests) ])

(* #reportProgress: the progress event *)
reportProgress(st, currentBatch, totalBatches) ==
    Event("progress", currentBatch,
          [ totalBatches |-> totalBatches,
            totalRequests |-> st.totalRequests,
            successfulRequests |-> st.successfulRequests,
            failedRequests |-> st.failedRequests,
            requestsPerSecond |-> st.requestsPerSecond,
            averageResponseTime |-> OrZero(st.totalResponseTime, st.totalRequests) ])

(* #cleanup: the final results carried by testComplete *)
cleanupResults(st, t) ==
    [ totalTime |-> t - st.startTime,
      totalRequests |-> st.totalRequests,
      successfulRequests |-> st.successfulRequests,
      failedRequests |-> st.failedRequests,
      successRate |-> Div(st.successfulRequests * 100, st.totalRequests),
      averageResponseTime |-> OrZero(st.totalResponseTime, st.totalRequests),
      requestsPerSecond |-> Div(st.totalRequests * MsPerSecond, t - st.startTime),
      responseTimes |-> st.responseTimes ]

(* History record of a launched batch: its size, launch time, request ids  *)
(* and the total counter at launch; duration and wait are filled in when   *)
(* the batch has settled (-1 until then).                                  *)
LogBatch(ps, t, st, s) ==
    [ n |-> Len(ps), at |-> t, ids |-> [i \in 1..Len(ps) |-> ps[i].id],
      base |-> st.totalRequests, stage |-> s, duration |-> -1, wait |-> -1 ]

-----------------------------------------------------------------------------
(* Size of the next constant-rate batch *)
constantBatchSize(c, calls, st) == Min(c.requestsPerSecond, calls - st.totalRequests)

(* the stage target alone, maxRequestsPerSecond ignored *)
rampBatchSize_ignoresMax(c, targetRPS) == targetRPS

(* Size of a ramp-up batch of the stage with this target *)
rampBatchSize(c, targetRPS) ==
    Min(targetRPS, IF c.maxRequestsPerSecond # 0 THEN c.maxRequestsPerSecond ELSE targetRPS)

(* stageDuration * 1000; exact for the ramp-up lengths of RampUps *)
StageMs(c) == (c.duration * MsPerSecond) \div Len(c.rampUp)

(* The pacing wait with the operands of the subtraction exchanged *)
waitTime_swapped(batchDuration) == Max(0, batchDuration - MsPerSecond)

(* The pacing wait computed after a batch *)
waitTime(batchDuration) == Max(0, MsPerSecond - batchDuration)

SetLast(log, duration, wait) ==
    [log EXCEPT ![Len(log)].duration = duration, ![Len(log)].wait = wait]

(* An upper bound of the requests a run with configuration c launches. *)
Work(c) ==
    IF c.rampUp = <<>>
    THEN LET calls == IF c.totalRequests # 0 THEN c.totalRequests
                      ELSE c.duration * c.requestsPerSecond
         IN CeilDiv(calls, c.requestsPerSecond) * c.requestsPerSecond
    ELSE LET perStage == CeilDiv(StageMs(c), MsPerSecond)
             SumTo[k \in 0..Len(c.rampUp)] ==
                 IF k = 0 THEN 0 ELSE SumTo[k - 1] + perStage * rampBatchSize(c, c.rampUp[k])
         IN SumTo[Len(c.rampUp)]

(* The merge {...this.config, ...options}: an option the caller leaves    *)
(* out is taken from the constructor configuration.                        *)
mergeConfig(ctor, options) ==
    [options EXCEPT !.silent = IF options.silent THEN TRUE ELSE ctor.silent]

(* A reporter call of runStressTest, #reportProgress or #cleanup: made     *)
(* unless the constructor configuration is silent.                         *)
report(ctor, calls, method) ==
    IF ~ctor.silent THEN Append(calls, method) ELSE calls

(* TestState after a call of runStressTest whose configuration is invalid, *)
(* had the assignments of the start been made before the validation.       *)
stateOnConfigError_afterStart(st, t) == [st EXCEPT !.startTime = t, !.isRunning = TRUE]

(* TestState after a call of runStressTest whose configuration is invalid: *)
(* validateConfig throws in the first statement.                           *)
stateOnConfigError(st, t) == st

(* runStressTest with an invalid configuration: validateConfig throws      *)
(* before anything is touched.                                             *)
RunInvalid(c) ==
    /\ pc = "idle"
    /\ validateConfig(mergeConfig(config, c)) # <<>>
    /\ callResult' = [status |-> "rejected", value |-> validateConfig(mergeConfig(config, c))]
    /\ state' = stateOnConfigError(state, now)
    /\ UNCHANGED <<now, pc, cfg, totalCalls, batches, batch, stage, stageEndTime,
                   batchStartTime, wakeAt, promises, events, batchLog, stopLog,
                   config, reporterCalls>>
    /\ UNCHANGED pureVars

(* runStressTest up to the emission of testStart, and the locals of the    *)
(* loop function that is entered.  A testStart listener may call stop()    *)
(* before the loop condition is first evaluated.                           *)
RunStressTest(c) ==
    /\ pc = "idle"
    /\ validateConfig(mergeConfig(config, c)) = <<>>
    /\ state.totalRequests + Work(c) <= MaxRequests
    /\ cfg' = mergeConfig(config, c)
    /\ callResult' = [status |-> "pending", value |-> <<>>]
    /\ now' = 0
    /\ state' = [state EXCEPT !.startTime = now', !.isRunning = TRUE]
    /\ events' = <<Event("testStart", 0, NoPayload)>>
    /\ reporterCalls' = report(config, <<>>, "onTestStart")
    /\ totalCalls' = IF c.totalRequests # 0 THEN c.totalRequests
                     ELSE c.duration * c.requestsPerSecond
    /\ batches' = CeilDiv(totalCalls', c.requestsPerSecond)
    /\ batch' = 0
    /\ stage' = 0
    /\ pc' = IF IsRampUp(c) THEN "stageLoop" ELSE "loop"
    /\ UNCHANGED <<stageEndTime, batchStartTime, wakeAt, promises, batchLog, stopLog, config>>
    /\ UNCHANGED pureVars

(* #cleanup at time t: isRunning is cleared, testComplete is emitted with  *)
(* the final results, the reporter is told.                                *)
cleanup(st, ev, calls, t) ==
    [ st |-> [st EXCEPT !.isRunning = FALSE],
      ev |-> Append(ev, Event("testComplete", 0, cleanupResults(st, t))),
      calls |-> report(config, calls, "onTestComplete") ]

(* A catch clause that swallows the fault without telling anyone *)
catchError_silent(ev, fault) == ev

(* The catch clause of runStressTest: the error event carries the fault,   *)
(* which is thrown again.                                                  *)
catchError(ev, fault) == Append(ev, Event("error", 0, [error |-> fault]))

(* A fault handled without the finally clause *)
abortRun_noFinally(st, ev, calls, t, fault) ==
    [ st |-> st, ev |-> catchError(ev, fault), calls |-> calls ]

(* A fault thrown inside a loop function at time t: the catch clause, then *)
(* the finally clause of runStressTest.                                    *)
abortRun(st, ev, calls, t, fault) == cleanup(st, catchError(ev, fault), calls, t)

(* The loop function returned: the finally of runStressTest (#cleanup). *)
Cleanup ==
    LET r == cleanup(state, events, reporterCalls, now)
    IN /\ state' = r.st
       /\ events' = r.ev
       /\ reporterCalls' = r.calls
       /\ pc' = "finalized"

(* The promise of a run in which `fault` was thrown: still pending while   *)
(* the catch and finally clauses run.                                      *)
Throwing(fault) == [status |-> "pending", value |-> <<fault>>]

(* runStressTest returns after the finally block and the caller resumes.   *)
(* Its promise is fulfilled with undefined (the function has no return     *)
(* statement), or rejected with the fault the catch clause threw again.    *)
Return ==
    /\ pc = "finalized"
    /\ callResult' = IF callResult.value = <<>>
                     THEN [status |-> "fulfilled", value |-> <<>>]
                     ELSE [status |-> "rejected", value |-> callResult.value]
    /\ pc' = "idle"
    /\ now' = 0
    /\ totalCalls' = 0
    /\ batches' = 0
    /\ batch' = 0
    /\ stage' = 0
    /\ stageEndTime' = 0
    /\ batchStartTime' = 0
    /\ wakeAt' = 0
    /\ promises' = <<>>
    /\ events' = <<>>
    /\ reporterCalls' = <<>>
    /\ batchLog' = <<>>
    /\ stopLog' = NotStopped
    /\ cfg' = NoConfig
    /\ UNCHANGED <<state, config>>
    /\ UNCHANGED pureVars

(* The loop conditions *)
constantLoopCondition_ignoresStop(b, bs, st) == b < bs

constantLoopCondition(b, bs, st) == b < bs /\ st.isRunning
rampForCondition(s, c, st) == s < Len(c.rampUp) /\ st.isRunning
rampWhileCondition(t, endTime, st) == t < endTime /\ st.isRunning

(* Constant rate: the loop condition, then either the launch of the next   *)
(* batch or the end of the run.                                            *)
ConstantLaunch ==
    /\ pc = "loop"
    /\ constantLoopCondition(batch, batches, state)
    /\ \E throwers \in Throwers(cfg, constantBatchSize(cfg, totalCalls, state)) :
          promises' = launchBatch(state, now, cfg,
                                  constantBatchSize(cfg, totalCalls, state), throwers)
    /\ batchStartTime' = now
    /\ batchLog' = Append(batchLog, LogBatch(promises', now, state, 0))
    /\ pc' = "await"
    /\ UNCHANGED <<state, now, cfg, totalCalls, batches, batch, stage, stageEndTime,
                   wakeAt, events, stopLog, callResult, config, reporterCalls>>
    /\ UNCHANGED pureVars

ConstantExit ==
    /\ pc = "loop"
    /\ ~constantLoopCondition(batch, batches, state)
    /\ Cleanup
    /\ UNCHANGED <<now, cfg, totalCalls, batches, batch, stage, stageEndTime,
                   batchStartTime, wakeAt, promises, batchLog, stopLog, callResult, config>>
    /\ UNCHANGED pureVars

(* The transport answers request i: the rest of #executeSingleRequest.     *)
(* The requests of a batch are launched in the same instant with the same  *)
(* arguments and may be answered in any order; the promises array is       *)
(* indexed here in the order of the answers (the pending request with the  *)
(* lowest index is the next one answered), which leaves out only           *)
(* permutations of the array.                                              *)
RequestSettles(i, outcome, d) ==
    /\ pc = "await"
    /\ i \in 1..Len(promises)
    /\ promises[i].status = "pending"
    /\ \A j \in 1..(i - 1) : promises[j].status # "pending"
    /\ now' = now + d
    /\ LET r == completeRequest(state, events, promises[i], outcome, now')
       IN /\ state' = r.st
          /\ events' = r.ev
          /\ promises' = [promises EXCEPT ![i].status = r.status, ![i].outcome = outcome]
    /\ UNCHANGED <<pc, cfg, totalCalls, batches, batch, stage, stageEndTime,
                   batchStartTime, wakeAt, batchLog, stopLog, callResult,
                   config, reporterCalls>>
    /\ UNCHANGED pureVars

(* A fail-fast join in the manner of Promise.all: it also ends as soon as  *)
(* one promise is rejected.                                                *)
allSettled_failFast(ps) ==
    Settled(ps) \/ \E i \in 1..Len(ps) : ps[i].status = "rejected"

(* Promise.allSettled: the loop resumes once no promise is pending. *)
allSettled(ps) == Settled(ps)

(* What a listener called by emit does: it returns ("none") or throws one  *)
(* of these errors, which emit passes on to its caller.                    *)
ListenerFaults == {"TypeError", "RangeError"}
ListenerOutcomes == {"none"} \cup ListenerFaults

(* Constant rate, after the pacing wait (if any): metrics, progress event  *)
(* and reporter call; a progress listener may throw.                       *)
ConstantAfterBatch(t, fault) ==
    LET st == updateMetrics(state, t)
        ev == Append(events, reportProgress(st, batch + 1, batches))
    IN IF fault = "none"
       THEN /\ state' = st
            /\ events' = ev
            /\ reporterCalls' = report(config, reporterCalls, "onProgress")
            /\ batch' = batch + 1
            /\ pc' = "loop"
            /\ UNCHANGED callResult
       ELSE LET r == abortRun(st, ev, reporterCalls, t, fault)
            IN /\ state' = r.st
               /\ events' = r.ev
               /\ reporterCalls' = r.calls
               /\ pc' = "finalized"
               /\ callResult' = Throwing(fault)
               /\ UNCHANGED batch

ConstantBarrier ==
    /\ pc = "await"
    /\ ~IsRampUp(cfg)
    /\ allSettled(promises)
    /\ LET batchDuration == now - batchStartTime
           wait == waitTime(batchDuration)
       IN IF batch < batches - 1 /\ wait > 0
          THEN /\ pc' = "sleep"
               /\ wakeAt' = now + wait
               /\ batchLog' = SetLast(batchLog, batchDuration, wait)
               /\ UNCHANGED <<state, events, batch, reporterCalls, callResult>>
          ELSE /\ \E fault \in ListenerOutcomes : ConstantAfterBatch(now, fault)
               /\ batchLog' = SetLast(batchLog, batchDuration, 0)
               /\ UNCHANGED wakeAt
    /\ UNCHANGED <<now, cfg, totalCalls, batches, stage, stageEndTime,
                   batchStartTime, promises, stopLog, config>>
    /\ UNCHANGED pureVars

ConstantTimer(late) ==
    /\ pc = "sleep"
    /\ ~IsRampUp(cfg)
    /\ now' = wakeAt + late
    /\ \E fault \in ListenerOutcomes : ConstantAfterBatch(now', fault)
    /\ UNCHANGED <<cfg, totalCalls, batches, stage, stageEndTime,
                   batchStartTime, wakeAt, promises, batchLog, stopLog, config>>
    /\ UNCHANGED pureVars

(* A stageComplete event that counts the stages from 0 *)
stageCompleteEvent_zeroBased(s, c) == Event("stageComplete", s, [rps |-> c.rampUp[s + 1]])

(* The stageComplete event of the stage with loop index s *)
stageCompleteEvent(s, c) == Event("stageComplete", s + 1, [rps |-> c.rampUp[s + 1]])

(* Ramp-up: the while condition of the current stage at time t, then       *)
(* either the launch of the stage's next batch or the stageComplete event  *)
(* and the step to the next stage.  A stageComplete listener may call      *)
(* stop() before the for condition is evaluated again, or throw.           *)
RampWhile(st, t, endTime, log) ==
    IF rampWhileCondition(t, endTime, st)
    THEN /\ promises' = launchBatch(st, t, cfg, rampBatchSize(cfg, cfg.rampUp[stage + 1]), {})
         /\ batchStartTime' = t
         /\ batchLog' = Append(log, LogBatch(promises', t, st, stage))
         /\ pc' = "await"
         /\ state' = st
         /\ UNCHANGED <<events, stage, reporterCalls, callResult>>
    ELSE /\ \E fault \in ListenerOutcomes :
              LET ev == Append(events, stageCompleteEvent(stage, cfg))
              IN IF fault = "none"
                 THEN /\ state' = st
                      /\ events' = ev
                      /\ stage' = stage + 1
                      /\ pc' = "stageLoop"
                      /\ UNCHANGED <<reporterCalls, callResult>>
                 ELSE LET r == abortRun(st, ev, reporterCalls, t, fault)
                      IN /\ state' = r.st
                         /\ events' = r.ev
                         /\ reporterCalls' = r.calls
                         /\ pc' = "finalized"
                         /\ callResult' = Throwing(fault)
                         /\ UNCHANGED stage
         /\ batchLog' = log
         /\ UNCHANGED <<promises, batchStartTime>>

(* Ramp-up: the for condition, then the first pass of the stage's while    *)
(* loop, or the end of the run.                                            *)
RampStage ==
    /\ pc = "stageLoop"
    /\ rampForCondition(stage, cfg, state)
    /\ stageEndTime' = now + StageMs(cfg)
    /\ RampWhile(state, now, stageEndTime', batchLog)
    /\ UNCHANGED <<now, cfg, totalCalls, batches, batch, wakeAt, stopLog, config>>
    /\ UNCHANGED pureVars

RampExit ==
    /\ pc = "stageLoop"
    /\ ~rampForCondition(stage, cfg, state)
    /\ Cleanup
    /\ UNCHANGED <<now, cfg, totalCalls, batches, batch, stage, stageEndTime,
                   batchStartTime, wakeAt, promises, batchLog, stopLog, callResult, config>>
    /\ UNCHANGED pureVars

RampBarrier ==
    /\ pc = "await"
    /\ IsRampUp(cfg)
    /\ allSettled(promises)
    /\ LET batchDuration == now - batchStartTime
           wait == waitTime(batchDuration)
       IN IF wait > 0
          THEN /\ pc' = "sleep"
               /\ wakeAt' = now + wait
               /\ batchLog' = SetLast(batchLog, batchDuration, wait)
               /\ UNCHANGED <<state, events, stage, promises, batchStartTime,
                              reporterCalls, callResult>>
          ELSE /\ RampWhile(updateMetrics(state, now), now, stageEndTime,
                            SetLast(batchLog, batchDuration, 0))
               /\ UNCHANGED wakeAt
    /\ UNCHANGED <<now, cfg, totalCalls, batches, batch, stageEndTime, stopLog, config>>
    /\ UNCHANGED pureVars

RampTimer(late) ==
    /\ pc = "sleep"
    /\ IsRampUp(cfg)
    /\ now' = wakeAt + late
    /\ RampWhile(updateMetrics(state, now'), now', stageEndTime, batchLog)
    /\ UNCHANGED <<cfg, totalCalls, batches, batch, stageEndTime, wakeAt, stopLog, config>>
    /\ UNCHANGED pureVars

(* stop(), called while a run is in progress (at most once per run; called *)
(* again, or outside a run, it only clears a flag that is already clear).  *)
Stop ==
    /\ pc \notin {"idle", "finalized"}
    /\ ~stopLog.called
    /\ state' = [state EXCEPT !.isRunning = FALSE]
    /\ events' = Append(events, Event("testStopped", 0, NoPayload))
    /\ stopLog' = [called |-> TRUE, batches |-> Len(batchLog), total |-> state.totalRequests,
                   pending |-> Cardinality({i \in 1..Len(promises) : promises[i].status = "pending"})]
    /\ UNCHANGED <<now, pc, cfg, totalCalls, batches, batch, stage, stageEndTime,
                   batchStartTime, wakeAt, promises, batchLog, callResult,
                   config, reporterCalls>>
    /\ UNCHANGED pureVars

Next ==
    \/ \E c \in Configs : RunInvalid(c)
    \/ \E c \in Configs : RunStressTest(c)
    \/ ConstantLaunch
    \/ ConstantExit
    \/ Return
    \/ \E i \in 1..MaxRps, o \in Outcomes, d \in Elapse : RequestSettles(i, o, d)
    \/ ConstantBarrier
    \/ \E late \in TimerLate : ConstantTimer(late)
    \/ RampStage
    \/ RampExit
    \/ RampBarrier
    \/ \E late \in TimerLate : RampTimer(late)
    \/ Stop

Spec == Init /\ [][Next]_vars

(* validateConfig called on its own with any configuration object *)
ValidateInit == Construct(FALSE) /\ arg \in RawConfigs /\ ret = <<>> /\ returned = FALSE

CallValidateConfig ==
    /\ ~returned
    /\ ret' = validateConfigCall(arg)
    /\ returned' = TRUE
    /\ UNCHANGED <<arg, testerVars>>

ValidateNext == CallValidateConfig

ValidateSpec == ValidateInit /\ [][ValidateNext]_vars

(* calculateStatistics called on its own, and called again on the same    *)
(* array, as getStatistics does on state.responseTimes                    *)
StatisticsInit ==
    Construct(FALSE) /\ arg \in StatisticsInputs /\ ret = <<>> /\ returned = FALSE

CallCalculateStatistics ==
    /\ ret' = calculateStatistics(IF returned THEN ret.results ELSE arg)
    /\ returned' = TRUE
    /\ UNCHANGED <<arg, testerVars>>

StatisticsNext == CallCalculateStatistics

StatisticsSpec == StatisticsInit /\ [][StatisticsNext]_vars

(* generateDynamicData called on its own: Date.now() and every call of    *)
(* Math.random() return any of their values                               *)
GenerateInit ==
    Construct(FALSE) /\ arg \in GeneratorInputs /\ ret = <<>> /\ returned = FALSE

CallGenerateDynamicData ==
    /\ ~returned
    /\ \E timestamp \in DateNow :
       \E randoms \in [1..MathRandomCalls(arg.template) -> MathRandom] :
          ret' = generateDynamicData(RenderTree(arg.template), arg.requestId,
                                     timestamp, randoms)
    /\ returned' = TRUE
    /\ UNCHANGED <<arg, testerVars>>

GenerateNext == CallGenerateDynamicData

GenerateSpec == GenerateInit /\ [][GenerateNext]_vars

SpecAny == InitAny /\ [][Next]_vars

(* The steps of a run that the JavaScript event loop takes by itself once  *)
(* they are possible: the continuation of the coroutine after an await, a  *)
(* timer that is due, and the answer (or the timeout) of a request.        *)
RunSteps ==
    \/ ConstantLaunch
    \/ ConstantExit
    \/ Return
    \/ \E i \in 1..MaxRps, o \in Outcomes, d \in Elapse : RequestSettles(i, o, d)
    \/ ConstantBarrier
    \/ \E late \in TimerLate : ConstantTimer(late)
    \/ RampStage
    \/ RampExit
    \/ RampBarrier
    \/ \E late \in TimerLate : RampTimer(late)

(* Every step of RunSteps changes one of these *)
runVars == <<pc, now, promises, batchLog>>

(* Runs in which no step of the event loop is postponed forever *)
FairSpec == Spec /\ WF_runVars(RunSteps)

-----------------------------------------------------------------------------
(* Properties                                                              *)

CountEvents(type) == Cardinality({k \in 1..Len(events) : events[k].type = type})

(* Requests launched by the current run: the calls of                      *)
(* #executeSingleRequest of all its batches.                               *)
RECURSIVE SumSizes(_)
SumSizes(log) == IF log = <<>> THEN 0 ELSE log[1].n + SumSizes(Tail(log))

(* The run has finalized: testComplete was emitted. *)
Finalized == pc = "finalized"

FinalResults == events[Len(events)].b

(* A fault was thrown inside the loop function of the run *)
Faulted == callResult.status = "pending" /\ callResult.value # <<>>

(* C1: at every batch barrier (no launched request still pending) and in   *)
(* the final results, totalRequests = successfulRequests + failedRequests. *)
C1_TotalIsSuccessPlusFailed ==
    /\ Settled(promises) =>
          state.totalRequests = state.successfulRequests + state.failedRequests
    /\ Finalized =>
          FinalResults.totalRequests
             = FinalResults.successfulRequests + FinalResults.failedRequests

(* C2: every launched request causes exactly one requestComplete event     *)
(* carrying its result: once the launched requests have settled there are  *)
(* as many requestComplete events as launched requests.                    *)
C2_OneRequestCompletePerRequest ==
    Settled(promises) => CountEvents("requestComplete") = SumSizes(batchLog)

(* C3: every request outcome appends exactly one latency sample: at every  *)
(* batch barrier the length of responseTimes equals totalRequests.         *)
C3_OneSamplePerRequest ==
    Settled(promises) => Len(state.responseTimes) = state.totalRequests

(* The ids given to the requests of the current run, in launch order *)
RECURSIVE IdsOf(_)
IdsOf(log) == IF log = <<>> THEN <<>> ELSE log[1].ids \o IdsOf(Tail(log))

(* C4: no two requests of a run, also of the same batch, get the same id.  *)
C4_RequestIdsUnique ==
    \A j, k \in 1..Len(IdsOf(batchLog)) :
        j # k => IdsOf(batchLog)[j] # IdsOf(batchLog)[k]

(* The step in which request i settles with the transport's answer o *)
SettlesWith(i, o) ==
    /\ i \in 1..Len(promises) /\ Len(promises') = Len(promises)
    /\ promises[i].status = "pending"
    /\ promises'[i].status # "pending"
    /\ promises'[i].outcome = o

(* C5: a request answered with a status in [200,300) adds one to           *)
(* successfulRequests and leaves failedRequests alone; any other outcome   *)
(* adds one to failedRequests and leaves successfulRequests alone.         *)
C5_OutcomeClassification ==
    [][\A i \in 1..MaxRps, o \in Outcomes :
          SettlesWith(i, o) =>
             IF o >= 200 /\ o < 300
             THEN /\ state'.successfulRequests = state.successfulRequests + 1
                  /\ state'.failedRequests = state.failedRequests
             ELSE /\ state'.failedRequests = state.failedRequests + 1
                  /\ state'.successfulRequests = state.successfulRequests]_vars

(* C6: no counter update is lost: once a batch of N launched requests has  *)
(* settled, totalRequests has grown by exactly N since the launch.         *)
C6_BatchCountsEveryRequest ==
    (batchLog # <<>> /\ Settled(promises)) =>
        state.totalRequests = batchLog[Len(batchLog)].base + batchLog[Len(batchLog)].n

(* The size the k-th of nb constant-rate batches should have *)
ExpectedSize(k, nb, calls, rps) ==
    IF k < nb \/ calls % rps = 0 THEN rps ELSE calls % rps

(* C7: a constant-rate run that is not cancelled (nor ended by a throwing  *)
(* listener) launches                                                      *)
(* ceil(totalCalls / requestsPerSecond) batches, all of size               *)
(* requestsPerSecond but the last, which has the remainder (or a full      *)
(* batch); the sizes sum to totalCalls.                                    *)
C7_ConstantRateBatches ==
    (Finalized /\ ~IsRampUp(cfg) /\ ~stopLog.called /\ ~Faulted) =>
        /\ Len(batchLog) = CeilDiv(totalCalls, cfg.requestsPerSecond)
        /\ \A k \in 1..Len(batchLog) :
              batchLog[k].n = ExpectedSize(k, Len(batchLog), totalCalls, cfg.requestsPerSecond)
        /\ SumSizes(batchLog) = totalCalls

(* Every iteration the loops were configured for has run *)
AllBatchesRun ==
    IF IsRampUp(cfg)
    THEN /\ stage = Len(cfg.rampUp)
         /\ StageMs(cfg) > 0 =>
               \A s \in 0..(Len(cfg.rampUp) - 1) :
                   \E k \in 1..Len(batchLog) : batchLog[k].stage = s
    ELSE batch = batches /\ Len(batchLog) = batches

(* C8: join barrier.  A batch is launched only when every request of the   *)
(* previous batch has settled, and failing requests abort nothing: when an *)
(* uncancelled run finalizes without a fault of the loop itself, every     *)
(* request has settled and every batch the loop was to launch has been     *)
(* launched.                                                               *)
C8_JoinBarrier ==
    /\ [][Len(batchLog') > Len(batchLog) => Settled(promises)]_vars
    /\ [](Finalized => Settled(promises))
    /\ []((Finalized /\ ~stopLog.called /\ ~Faulted) => AllBatchesRun)

C8_Witness ==
    /\ Finalized /\ ~stopLog.called /\ ~Faulted
    /\ Len(batchLog) >= 2
    /\ \E i \in 1..Len(promises) : promises[i].outcome = 404
    /\ state.failedRequests >= 3

(* The largest size the pacing allows for a batch *)
NominalSize(b) ==
    IF IsRampUp(cfg) THEN rampBatchSize(cfg, cfg.rampUp[b.stage + 1])
    ELSE cfg.requestsPerSecond

(* C9: pacing.  Two consecutive batches are launched at least 1000 ms      *)
(* apart; after a batch that took d < 1000 ms the scheduler sleeps         *)
(* 1000 - d ms before the next one; after a batch that took 1000 ms or     *)
(* more the next one is launched at once, without sleep, and is no larger  *)
(* than its nominal size.                                                  *)
C9_Pacing ==
    \A k \in 1..(Len(batchLog) - 1) :
        LET a == batchLog[k]
            b == batchLog[k + 1]
        IN /\ b.at - a.at >= MsPerSecond
           /\ a.duration < MsPerSecond =>
                 /\ a.wait = MsPerSecond - a.duration
                 /\ b.at >= a.at + a.duration + a.wait
           /\ a.duration >= MsPerSecond =>
                 /\ a.wait = 0
                 /\ b.at = a.at + a.duration
                 /\ b.n <= NominalSize(b)
                 /\ ~IsRampUp(cfg) => b.n <= a.n

C9_Witness ==
    /\ Len(batchLog) >= 3
    /\ batchLog[1].duration > 0 /\ batchLog[1].duration < MsPerSecond
    /\ batchLog[2].duration >= MsPerSecond
    /\ batchLog[3].n > 0

(* C10: cancellation is cooperative.  After stop() no new batch is         *)
(* launched, and the requests in flight when stop() was called all         *)
(* complete and are counted before the run finalizes.                      *)
C10_CooperativeCancellation ==
    /\ stopLog.called => Len(batchLog) = stopLog.batches
    /\ (Finalized /\ stopLog.called) =>
          /\ Settled(promises)
          /\ FinalResults.totalRequests = stopLog.total + stopLog.pending

C10_Witness ==
    /\ Finalized /\ stopLog.called
    /\ stopLog.pending >= 2
    /\ ~IsRampUp(cfg) /\ stopLog.batches < batches

EventsOf(type) == SelectSeq(events, LAMBDA e : e.type = type)

(* C12: when a fault that is not a request failure is thrown inside the    *)
(* scheduling loop, the error event is emitted with that fault, then       *)
(* testComplete with the results so far, and the promise of runStressTest  *)
(* is rejected with the same fault.                                        *)
C12_FaultReported ==
    /\ []((Finalized /\ Faulted) =>
            /\ Len(events) >= 2
            /\ events[Len(events) - 1] = Event("error", 0, [error |-> callResult.value[1]])
            /\ CountEvents("error") = 1
            /\ events[Len(events)].type = "testComplete"
            /\ FinalResults.totalRequests = state.totalRequests
            /\ FinalResults.successfulRequests = state.successfulRequests
            /\ FinalResults.failedRequests = state.failedRequests
            /\ FinalResults.responseTimes = state.responseTimes)
    /\ [](~Faulted => CountEvents("error") = 0)
    /\ [][(Finalized /\ Faulted /\ pc' = "idle") =>
             callResult' = [status |-> "rejected", value |-> callResult.value]]_vars

C12_Witness ==
    /\ Finalized /\ Faulted
    /\ callResult.value = <<"RangeError">>
    /\ FinalResults.totalRequests >= 2
    /\ Len(batchLog) >= 2

(* The rules of validateConfig *)
RuleNames == {"url", "requestsPerSecond", "totalRequests"}

(* The step in which a call of runStressTest fails on its configuration *)
ConfigErrorStep ==
    /\ pc = "idle" /\ pc' = "idle"
    /\ callResult'.status = "rejected"
    /\ callResult' # callResult

(* C13: a call of runStressTest with an invalid merged configuration fails *)
(* with the configuration error, issues no request, emits no event and     *)
(* leaves TestState as it was (isRunning false, startTime and counters     *)
(* unchanged).                                                             *)
C13_ConfigErrorTouchesNothing ==
    /\ [][ConfigErrorStep =>
             /\ state' = state
             /\ ~state'.isRunning
             /\ events' = <<>> /\ promises' = <<>> /\ batchLog' = <<>>
             /\ reporterCalls' = <<>>
             /\ callResult'.value # <<>>
             /\ \A k \in 1..Len(callResult'.value) : callResult'.value[k] \in RuleNames]_vars
    /\ [](pc = "idle" => ~state.isRunning)

C13_Witness ==
    /\ pc = "idle"
    /\ callResult = [status |-> "rejected", value |-> <<"url", "requestsPerSecond", "totalRequests">>]
    /\ state.totalRequests >= 2 /\ state.startTime = 0

(* The stageComplete events a ramp-up run over all stages of c emits *)
AllStageEvents(c) ==
    [k \in 1..Len(c.rampUp) |-> Event("stageComplete", k, [rps |-> c.rampUp[k]])]

(* C14 as stated: a ramp-up run emits exactly rampUp.length stageComplete  *)
(* events, for the stages 1..rampUp.length in order, each with the target  *)
(* RPS of its stage.                                                       *)
C14_AsStated ==
    (Finalized /\ IsRampUp(cfg)) => EventsOf("stageComplete") = AllStageEvents(cfg)

(* C14: the stageComplete events of a ramp-up run are, in order, those of  *)
(* the stages 1, 2, ... with the target RPS of each; a run that is neither *)
(* cancelled by stop() nor ended by a fault emits all rampUp.length of     *)
(* them, a cancelled or faulted run the first ones only.                   *)
C14_StageCompletePerStage ==
    IsRampUp(cfg) =>
        /\ Len(EventsOf("stageComplete")) <= Len(cfg.rampUp)
        /\ EventsOf("stageComplete")
              = SubSeq(AllStageEvents(cfg), 1, Len(EventsOf("stageComplete")))
        /\ (Finalized /\ ~stopLog.called /\ ~Faulted) =>
              EventsOf("stageComplete") = AllStageEvents(cfg)

C14_Witness ==
    /\ Finalized /\ IsRampUp(cfg) /\ ~stopLog.called /\ ~Faulted
    /\ Len(cfg.rampUp) = 2
    /\ Len(EventsOf("stageComplete")) = 2
    /\ Len(batchLog) >= 2

(* C15: within a run testStart is emitted once, before any request is      *)
(* launched; testComplete is the last event of the run and is emitted when *)
(* no request of the run is in flight any more.                            *)
C15_StartFirstCompleteLast ==
    /\ [](pc # "idle" =>
            /\ events # <<>>
            /\ events[1].type = "testStart"
            /\ CountEvents("testStart") = 1)
    /\ [][Len(batchLog') > Len(batchLog) => CountEvents("testStart") = 1]_vars
    /\ [](CountEvents("testComplete") > 0 =>
            /\ events[Len(events)].type = "testComplete"
            /\ Settled(promises))
    /\ [][Finalized => (pc' = "idle" \/ Len(events') = Len(events))]_vars

C15_Witness ==
    /\ Finalized
    /\ CountEvents("progress") >= 2
    /\ CountEvents("erorDuringRequest") >= 3
    /\ SumSizes(batchLog) >= 3

(* C16: in constant-rate mode one progress event is emitted per completed  *)
(* batch, once the requests of the batch have settled; the events are      *)
(* numbered 1, 2, ... and carry the counters of that moment.  Ramp-up mode *)
(* emits no progress event.                                                *)
C16_ProgressPerBatch ==
    /\ [](IsRampUp(cfg) => CountEvents("progress") = 0)
    /\ [](~IsRampUp(cfg) =>
            /\ Len(EventsOf("progress"))
                  = Len(batchLog) - (IF pc \in {"await", "sleep"} THEN 1 ELSE 0)
            /\ \A k \in 1..Len(EventsOf("progress")) : EventsOf("progress")[k].a = k)
    /\ [][Len(EventsOf("progress")') > Len(EventsOf("progress")) =>
             LET e == EventsOf("progress")'[Len(EventsOf("progress")')]
             IN /\ Settled(promises)
                /\ Len(EventsOf("progress")') = Len(EventsOf("progress")) + 1
                /\ e.b.totalRequests = state'.totalRequests
                /\ e.b.successfulRequests = state'.successfulRequests
                /\ e.b.failedRequests = state'.failedRequests]_vars

C16_Witness ==
    /\ ~IsRampUp(cfg) /\ pc = "loop"
    /\ Len(EventsOf("progress")) >= 2
    /\ EventsOf("progress")[2].b.failedRequests >= 2
    /\ EventsOf("progress")[2].b.totalRequests > EventsOf("progress")[1].b.totalRequests

(* C17: every call of runStressTest begins with the counters at zero and   *)
(* an empty latency sequence: so it is when the loop of a run is entered,  *)
(* before the first batch.                                                 *)
C17_FreshStatePerRun ==
    (pc \in {"loop", "stageLoop"} /\ batchLog = <<>>) =>
        /\ state.totalRequests = 0
        /\ state.successfulRequests = 0
        /\ state.failedRequests = 0
        /\ state.totalResponseTime = 0
        /\ state.responseTimes = <<>>

(* The quotient q is the number 0 (not NaN, not infinite) *)
IsZero(q) == q[1] = 0 /\ q[2] # 0

(* C18: the final results of a run that finishes with totalRequests = 0    *)
(* have averageResponseTime = 0 and successRate = 0.                       *)
C18_ZeroRequestsResults ==
    (Finalized /\ FinalResults.totalRequests = 0) =>
        /\ IsZero(FinalResults.averageResponseTime)
        /\ IsZero(FinalResults.successRate)

RECURSIVE Sum(_)
Sum(seq) == IF seq = <<>> THEN 0 ELSE seq[1] + Sum(Tail(seq))

(* C19: at every batch barrier totalResponseTime is the sum of the         *)
(* latencies recorded for the completed requests, and the                  *)
(* averageResponseTime of the final results is that sum divided by         *)
(* totalRequests when totalRequests > 0.                                   *)
C19_TotalResponseTimeIsSum ==
    /\ Settled(promises) => state.totalResponseTime = Sum(state.responseTimes)
    /\ (Finalized /\ FinalResults.totalRequests > 0) =>
          FinalResults.averageResponseTime
             = <<Sum(state.responseTimes), FinalResults.totalRequests>>

(* C20: when silent is set in the constructor configuration or in the      *)
(* options of the call, the run invokes no reporter method.                *)
C20_SilentSuppressesReporter ==
    (config.silent \/ cfg.silent) => reporterCalls = <<>>

(* C21: a run that completes without a fault resolves to the results      *)
(* object carried by its testComplete event.                               *)
C21_ResolvesToResults ==
    [][(Finalized /\ ~Faulted /\ pc' = "idle") =>
          /\ callResult'.status = "fulfilled"
          /\ Len(callResult'.value) = 1
          /\ callResult'.value[1] = FinalResults]_vars

(* The lines of the first three rules that configuration c violates, in    *)
(* the order url, requestsPerSecond, totalRequests                         *)
FirstThreeLines(c) ==
    (IF ~c.url /\ ~(c.baseURL /\ c.endpoint)
     THEN <<ErrorLine("url")>> ELSE <<>>)
    \o (IF ~(c.requestsPerSecond > 0)
        THEN <<ErrorLine("requestsPerSecond")>> ELSE <<>>)
    \o (IF c.totalRequests = 0 /\ c.duration = 0
        THEN <<ErrorLine("totalRequests")>> ELSE <<>>)

(* C22: validateConfig evaluates all four rules: it throws iff a rule is   *)
(* violated, with one message that lists one line per violated rule in the *)
(* order url, requestsPerSecond, totalRequests/duration, rampUp.  (Whether *)
(* an array with a non-number element or the number 0 violates the rampUp  *)
(* rule is the matter of C23 and left open here.)                          *)
C22_AllRulesReported ==
    returned =>
        LET lines == FirstThreeLines(arg)
            withRampUp == lines \o <<ErrorLine("rampUp")>>
        IN /\ arg.rampUp \in {"absent", "numbers"} =>
                 IF lines = <<>> THEN ~ret.threw
                 ELSE ret.threw /\ ret.message = <<"Configuration errors:">> \o lines
           /\ arg.rampUp \in {"string", "number", "object"} =>
                 ret.threw /\ ret.message = <<"Configuration errors:">> \o withRampUp
           /\ arg.rampUp \in {"mixed", "zero"} =>
                 IF ret.threw
                 THEN ret.message \in { <<"Configuration errors:">> \o lines,
                                        <<"Configuration errors:">> \o withRampUp }
                      /\ Len(ret.message) > 1
                 ELSE lines = <<>>

C22_Witness ==
    /\ returned
    /\ arg = [ url |-> FALSE, baseURL |-> FALSE, endpoint |-> FALSE, requestsPerSecond |-> 0,
               totalRequests |-> 0, duration |-> 0, rampUp |-> "absent" ]
    /\ ret.threw /\ Len(ret.message) = 4

(* C23: validateConfig throws, with the rampUp line in its message, when   *)
(* rampUp is present and is not an array of numbers: a string, a number, a *)
(* plain object, or an array with an element that is not a number.         *)
C23_RampUpMustBeNumbers ==
    (returned /\ arg.rampUp \in {"string", "number", "zero", "object", "mixed"}) =>
        /\ ret.threw
        /\ \E k \in 1..Len(ret.message) : ret.message[k] = ErrorLine("rampUp")

(* C24: for a configuration that violates no rule (url, or baseURL with    *)
(* endpoint; requestsPerSecond > 0; totalRequests or duration; rampUp      *)
(* absent or an array) validateConfig throws nothing, returns the object   *)
(* it was given and leaves its fields as they were.                        *)
C24_ValidConfigReturned ==
    (/\ returned
     /\ arg.url \/ (arg.baseURL /\ arg.endpoint)
     /\ arg.requestsPerSecond > 0
     /\ arg.totalRequests # 0 \/ arg.duration # 0
     /\ arg.rampUp \in {"absent", "numbers", "mixed"})
    => /\ ~ret.threw
       /\ ret.value = "argument"
       /\ ret.config = arg

C24_Witness ==
    /\ returned /\ ~ret.threw
    /\ ~arg.url /\ arg.baseURL /\ arg.endpoint
    /\ arg.totalRequests = 0 /\ arg.duration = 1
    /\ arg.rampUp = "numbers"

(* ---- calculateStatistics --------------------------------------------- *)
Field(object, key) == (CHOOSE p \in object : p[1] = key)[2]
Keys(object) == {p[1] : p \in object}
Elements(seq) == {seq[k] : k \in 1..Len(seq)}

(* the k-th smallest sample, counted with repetitions *)
Kth(seq, k) ==
    CHOOSE v \in Elements(seq) :
        /\ Cardinality({i \in 1..Len(seq) : seq[i] < v}) < k
        /\ Cardinality({i \in 1..Len(seq) : seq[i] <= v}) >= k

(* r, in thousandths, is a hundredth nearest to num / den *)
NearestHundredth(r, num, den) ==
    /\ r % 10 = 0
    /\ r * den - num <= 5 * den
    /\ num - r * den <= 5 * den

IsPercentile(v, seq, p) ==
    LET scaled == p * (Len(seq) - 1)
        lo == scaled \div 100
        frac == scaled % 100
    IN  IF frac = 0
        THEN v = Kth(seq, lo + 1)
        ELSE NearestHundredth(v, 100 * Kth(seq, lo + 1)
                                 + (Kth(seq, lo + 2) - Kth(seq, lo + 1)) * frac, 100)

C26_PercentilesWithinRange ==
    (returned /\ arg.kind = "array" /\ arg.samples # <<>>) =>
        /\ Field(ret.value, "min") <= Field(ret.value, "p95")
        /\ Field(ret.value, "p95") <= Field(ret.value, "p99")
        /\ Field(ret.value, "p99") <= Field(ret.value, "max")

Occurrences(seq, v) == Cardinality({k \in 1..Len(seq) : seq[k] = v})

IsPermutation(s, t) ==
    /\ Len(s) = Len(t)
    /\ \A v \in Elements(s) \cup Elements(t) : Occurrences(s, v) = Occurrences(t, v)

(* C27: calculateStatistics leaves its argument as it was, returns the    *)
(* same result when called again on it, and returns the same result for   *)
(* every permutation of it.                                               *)
C27_PureOrderIndependent ==
    returned =>
        /\ ret.results = arg
        /\ calculateStatistics(ret.results) = ret
        /\ \A other \in StatisticsInputs :
              ( /\ other.kind = arg.kind
                /\ IsPermutation(other.samples, arg.samples)
                /\ SameAdditions(arg.samples, other.samples)
                      => other.sumError = arg.sumError )
              => calculateStatistics(other).value = ret.value

(* ---- generateDynamicData --------------------------------------------- *)
DigitSet == {"0", "1", "2", "3", "4", "5", "6", "7", "8", "9"}

Alphanumerics ==
    { "A", "B", "C", "D", "E", "F", "G", "H", "I", "J", "K", "L", "M",
      "N", "O", "P", "Q", "R", "S", "T", "U", "V", "W", "X", "Y", "Z",
      "a", "b", "c", "d", "e", "f", "g", "h", "i", "j", "k", "l", "m",
      "n", "o", "p", "q", "r", "s", "t", "u", "v", "w", "x", "y", "z" }
    \cup DigitSet

(* the decimal text of r, 0 <= r < 100 *)
Decimal(r) ==
    IF r < 10 THEN <<DigitChars[r + 1]>>
    ELSE <<DigitChars[(r \div 10) + 1], DigitChars[(r % 10) + 1]>>

HasPrefix(text, p) == Len(text) >= Len(p) /\ SubSeq(text, 1, Len(p)) = p
Drop(text, n) == SubSeq(text, n + 1, Len(text))

(* text is what the pieces segs may become for request id.  In mode "ids" *)
(* {id} must be the decimal text of id, also where it is the number of a  *)
(* {randomNumber:...}, and the other placeholders may be anything of      *)
(* their alphabet; in the modes "asStated" and "random" a random number   *)
(* must be below the N of its placeholder and a random string must have   *)
(* N characters, mode "random" taking 0 for N = 0.                        *)
RECURSIVE Matches(_, _, _, _)
Matches(text, segs, id, mode) ==
    IF segs = <<>> THEN text = <<>>
    ELSE LET seg == segs[1]
             rest == Tail(segs)
             Exactly(p) == HasPrefix(text, p) /\ Matches(Drop(text, Len(p)), rest, id, mode)
             AnyRun(S) ==
                 \E n \in 0..Len(text) :
                     /\ \A k \in 1..n : text[k] \in S
                     /\ Matches(Drop(text, n), rest, id, mode)
             Below(n) == \E r \in 0..(n - 1) : Exactly(Decimal(r))
         IN  CASE seg.kind = "text" -> Exactly(<<"a">>)
               [] seg.kind = "id" ->
                    IF mode = "ids" THEN Exactly(Decimal(id)) ELSE AnyRun(DigitSet)
               [] seg.kind = "timestamp" -> AnyRun(DigitSet)
               [] seg.kind = "randomNumberOfId" ->
                    IF mode = "ids" THEN Below(id) ELSE AnyRun(DigitSet)
               [] seg.kind = "randomNumber" ->
                    IF mode = "ids" THEN AnyRun(DigitSet)
                    ELSE IF mode = "random" /\ seg.n = 0 THEN Exactly(<<"0">>)
                    ELSE Below(seg.n)
               [] seg.kind = "randomString" ->
                    IF mode = "ids" THEN AnyRun(Alphanumerics)
                    ELSE /\ Len(text) >= seg.n
                         /\ \A k \in 1..seg.n : text[k] \in Alphanumerics
                         /\ Matches(Drop(text, seg.n), rest, id, mode)

RECURSIVE SameKeys(_, _)
SameKeys(a, b) ==
    IF a.t = "object" /\ b.t = "object"
    THEN /\ Len(a.v) = Len(b.v)
         /\ \A k \in 1..Len(a.v) :
               a.v[k].key = b.v[k].key /\ SameKeys(a.v[k].value, b.v[k].value)
    ELSE a.t # "object" /\ b.t # "object"

RECURSIVE StringsMatch(_, _, _, _)
StringsMatch(result, template, id, mode) ==
    IF template.t = "string"
    THEN result.t = "string" /\ Matches(result.v, template.v, id, mode)
    ELSE IF template.t = "object"
    THEN \A k \in 1..Len(template.v) :
            StringsMatch(result.v[k].value, template.v[k].value, id, mode)
    ELSE TRUE

(* C28: generateDynamicData returns a structure with the keys of the      *)
(* template at every level, in which every {id} of every string, at any   *)
(* depth, is replaced by the decimal text of requestId; {id: "{id}"} with *)
(* 42 gives {id: "42"}.                                                   *)
C28_IdReplacedEverywhere ==
    returned =>
        /\ SameKeys(ret.value, arg.template)
        /\ StringsMatch(ret.value, arg.template, arg.requestId, "ids")
        /\ ( ( /\ arg.template = Shape("flat", <<[kind |-> "id", n |-> 0]>>)
               /\ arg.requestId = 42 )
             => ret.value.v = <<Entry("id", Str(<<"4", "2">>))>> )

(* two {id} in a string two levels down, and one a level further *)
C28_Witness ==
    /\ returned
    /\ arg.template = Shape("nested", <<[kind |-> "id", n |-> 0], [kind |-> "id", n |-> 0]>>)
    /\ arg.requestId = 42
    /\ ret.value.v[1].value.v[1].value.v = <<"4", "2", "4", "2">>
    /\ ret.value.v[1].value.v[2].value.v[1].value.v = <<"a", "4", "2">>

(* C29 as stated: for every N, each {randomNumber:N} becomes an integer r *)
(* with 0 <= r < N and each {randomString:N} a string of exactly N        *)
(* characters of [A-Za-z0-9].                                             *)
C29_AsStated ==
    returned => StringsMatch(ret.value, arg.template, arg.requestId, "asStated")

(* C29: for every N >= 1 each {randomNumber:N} becomes an integer r with  *)
(* 0 <= r < N, drawn for that occurrence, and {randomNumber:0} becomes 0; *)
(* for every N >= 0 each {randomString:N} becomes a string of exactly N   *)
(* characters of [A-Za-z0-9], generated for that occurrence.              *)
C29_RandomInRange ==
    returned => StringsMatch(ret.value, arg.template, arg.requestId, "random")

(* two occurrences in one string have got different numbers *)
C29_Witness ==
    /\ returned
    /\ arg.template = Shape("flat", <<[kind |-> "randomNumber", n |-> 3],
                                      [kind |-> "randomNumber", n |-> 3]>>)
    /\ ret.value.v[1].value.v = <<"2", "0">>

RECURSIVE NonStringLeavesEqual(_, _)
NonStringLeavesEqual(result, template) ==
    IF template.t = "object"
    THEN /\ result.t = "object"
         /\ Len(result.v) = Len(template.v)
         /\ \A k \in 1..Len(template.v) :
               NonStringLeavesEqual(result.v[k].value, template.v[k].value)
    ELSE template.t # "string" => result = template

RECURSIVE NewObjects(_)
NewObjects(value) ==
    value.t = "object" =>
        /\ value.ref # "template"
        /\ \A k \in 1..Len(value.v) : NewObjects(value.v[k].value)

(* C30: generateDynamicData leaves the template as it was at every depth  *)
(* and returns a structure of new objects in which every number, boolean  *)
(* and null is the one of the template.                                   *)
C30_TemplateUntouched ==
    returned =>
        /\ ret.template = RenderTree(arg.template)
        /\ NewObjects(ret.value)
        /\ NonStringLeavesEqual(ret.value, arg.template)

(* a string two levels down has been replaced in the result *)
C30_Witness ==
    /\ returned
    /\ arg.template = Shape("nested", <<[kind |-> "id", n |-> 0]>>)
    /\ ret.value.v[1].value.v[1].value.v = Decimal(arg.requestId)
    /\ ret.value.v[1].value.v[3].value = Num(30)

(* ---- the request executor and the two loops, continued --------------- *)
(* the events the step has added *)
NewEvents == {k \in 1..Len(events') : k > Len(events)}

(* C31: a request answered with a status outside [200,300) yields a       *)
(* requestComplete result with success = false and the status received as *)
(* statusCode; a result with statusCode 0 and an error message is only    *)
(* produced for a transport failure (outcome 0).                          *)
C31_StatusOfFailedRequest ==
    [][\A i \in 1..MaxRps, o \in Outcomes :
          SettlesWith(i, o) =>
             /\ (o # 0 /\ ~(o >= 200 /\ o < 300)) =>
                    \E k \in NewEvents :
                        /\ events'[k].type = "requestComplete"
                        /\ events'[k].b.success = FALSE
                        /\ events'[k].b.statusCode = o
             /\ \A k \in NewEvents :
                    ( /\ events'[k].type = "requestComplete"
                      /\ events'[k].b.statusCode = 0
                      /\ events'[k].b.error ) => o = 0]_vars

(* the size a batch of the stage with this target is to have *)
StageBatchSize(c, target) ==
    IF c.maxRequestsPerSecond # 0
    THEN (IF target <= c.maxRequestsPerSecond THEN target ELSE c.maxRequestsPerSecond)
    ELSE target

(* C32: in ramp-up mode every batch of a stage has size min(target RPS of *)
(* the stage, maxRequestsPerSecond) when maxRequestsPerSecond is set and  *)
(* the target RPS otherwise, whatever earlier batches and stages issued.  *)
C32_RampBatchSize ==
    IsRampUp(cfg) =>
        \A k \in 1..Len(batchLog) :
            batchLog[k].n = StageBatchSize(cfg, cfg.rampUp[batchLog[k].stage + 1])

(* a capped batch launched after earlier batches have completed requests, *)
(* and in the second stage                                                *)
C32_Witness ==
    /\ IsRampUp(cfg)
    /\ cfg.maxRequestsPerSecond = 1
    /\ Len(batchLog) >= 2
    /\ batchLog[Len(batchLog)].stage = 1
    /\ cfg.rampUp[2] = 2
    /\ batchLog[Len(batchLog)].n = 1
    /\ batchLog[Len(batchLog)].base > 0

(* the step emits the stageComplete of a stage *)
EmitsStageComplete ==
    \E k \in NewEvents : events'[k].type = "stageComplete"

(* the latest a timer fires after it is due *)
Lateness == CHOOSE l \in TimerLate : \A m \in TimerLate : m <= l

(* C33: in a ramp-up run that is not cancelled each stage lasts           *)
(* duration / rampUp.length seconds: its stageComplete is emitted when    *)
(* that time has passed since the stage began (a timer may fire late),    *)
(* whatever the latency of its batches.                                   *)
C33_StageLastsItsShare ==
    [][(EmitsStageComplete /\ ~stopLog.called) =>
          /\ now' >= stageEndTime'
          /\ now' - stageEndTime' <= Lateness]_vars

(* C34: a ramp-up run that is not cancelled launches at least one batch   *)
(* in every stage before it emits the stageComplete of the stage, also    *)
(* when the configuration gives totalRequests and no duration.            *)
C34_EveryStageLaunches ==
    (IsRampUp(cfg) /\ ~stopLog.called) =>
        \A k \in 1..Len(events) :
            events[k].type = "stageComplete" =>
                \E j \in 1..Len(batchLog) : batchLog[j].stage = events[k].a - 1

(* C35: in constant-rate mode the requests launched during a run, those   *)
(* whose body generator throws included, are never more than totalCalls.  *)
C35_LaunchedWithinTotalCalls ==
    (pc # "idle" /\ ~IsRampUp(cfg)) => SumSizes(batchLog) <= totalCalls

====
